---- MODULE Spec2Model ----
(***************************************************************************)
(* One request served by DatatableMixin.get_context_data                   *)
(* (django_datatables_view/base_datatable_view.py).                        *)
(*                                                                         *)
(* Text values (request parameter values, column names, field values) are  *)
(* sequences of one-character strings, so that int(), str.replace() and    *)
(* the istartswith match are computed character by character.  Dictionary  *)
(* keys of the request are TLA+ strings built as the code's format() calls *)
(* build them.  A QuerySet is the lazy query specification Django keeps    *)
(* (filters, ordering, slice limits) over the model's objects; Rows is the *)
(* evaluation the database performs when the query set is counted or       *)
(* iterated.                                                               *)
(***************************************************************************)
EXTENDS Integers, Sequences, FiniteSets, TLC

VARIABLES
    querydict,                \* self._querydict: the request's parameter map
    model,                    \* self.model and the objects its manager holds
    columns,                  \* self.columns (static configuration)
    order_columns,            \* self.order_columns (configuration, rebound by get_order_columns)
    max_display_length,       \* self.max_display_length
    pre_camel_case_notation,  \* self.pre_camel_case_notation
    columns_data,             \* self.columns_data
    _columns,                 \* self._columns
    qs,                       \* local qs of get_context_data
    total_records,            \* local total_records
    total_display_records,    \* local total_display_records
    order,                    \* local order of ordering(): the keys handed to order_by
    exc,                      \* the exception in flight or caught ("" when none)
    logged,                   \* what handle_exception gave to logger.exception
    ret,                      \* what get_context_data returned: <<>> or <<document>>
    pc                        \* position in get_context_data

vars == <<querydict, model, columns, order_columns, max_display_length,
          pre_camel_case_notation, columns_data, _columns, qs, total_records,
          total_display_records, order, exc, logged, ret, pc>>

(***************************************************************************)
(* Bounds of the checked inputs.                                           *)
(***************************************************************************)
MaxSortEntries == 2
MaxColumnsData == 2
MaxDisplayLength == 3

(***************************************************************************)
(* Python values and builtins.                                             *)
(***************************************************************************)
None == <<"None">>

Digits == <<"0", "1", "2", "3", "4", "5", "6", "7", "8", "9">>

IsDigit(c) == \E i \in 1..10 : Digits[i] = c

DigitVal(c) == (CHOOSE i \in 1..10 : Digits[i] = c) - 1

RECURSIVE DigitsVal(_)
DigitsVal(s) ==
    IF s = <<>> THEN 0
    ELSE 10 * DigitsVal(SubSeq(s, 1, Len(s) - 1)) + DigitVal(s[Len(s)])

\* int(v): TypeError for None, ValueError for text that is no optionally
\* signed decimal numeral, the number otherwise.
int(v) ==
    IF v = None THEN [err |-> "TypeError", val |-> 0]
    ELSE LET signed == Len(v) > 0 /\ v[1] \in {"-", "+"}
             body == IF signed THEN Tail(v) ELSE v
         IN IF body # <<>> /\ \A i \in 1..Len(body) : IsDigit(body[i])
            THEN [err |-> "",
                  val |-> IF signed /\ v[1] = "-" THEN 0 - DigitsVal(body)
                          ELSE DigitsVal(body)]
            ELSE [err |-> "ValueError", val |-> 0]

min(a, b) == IF a <= b THEN a ELSE b

\* s.replace('.', '__')
RECURSIVE replace(_)
replace(s) ==
    IF s = <<>> THEN <<>>
    ELSE (IF s[1] = "." THEN <<"_", "_">> ELSE <<s[1]>>) \o replace(Tail(s))

\* str.lower() on the letters the checked texts use.
lower(c) ==
    CASE c = "A" -> "a"
      [] c = "B" -> "b"
      [] c = "Z" -> "z"
      [] OTHER -> c

\* The database's istartswith lookup: case-insensitive prefix match.
istartswith(value, text) ==
    /\ Len(text) <= Len(value)
    /\ \A i \in 1..Len(text) : lower(value[i]) = lower(text[i])

\* dict.get(key, default) on the request's parameter map.
Get(key, default) == IF key \in DOMAIN querydict THEN querydict[key] ELSE default

\* 'prefix{0}suffix'.format(i)
Fmt(prefix, i, suffix) == prefix \o ToString(i) \o suffix

(***************************************************************************)
(* Configured column lists.  An order column is a str or a list of str:    *)
(* is_list tells which, keys holds the name or names.                      *)
(***************************************************************************)
Str(name) == [is_list |-> FALSE, keys |-> <<name>>]

List(names) == [is_list |-> TRUE, keys |-> names]

(***************************************************************************)
(* The model's objects.  A row maps a field path, in the database's        *)
(* relation__field form, to the field's text.  The objects define no       *)
(* get_<field>_display and no get_absolute_url.                            *)
(***************************************************************************)
T_id == <<"i", "d">>

T_name == <<"n", "a", "m", "e">>

T_o_n == <<"o", ".", "n">>

Row(id, name, o_n) == (T_id :> id) @@ (T_name :> name) @@ (replace(T_o_n) :> o_n)

Objects ==
    << Row(<<"1">>, <<"B", "o", "b">>, <<"z">>),
       Row(<<"2">>, <<"A", "m", "y">>, <<"a">>),
       Row(<<"3">>, <<"Z", "o", "e">>, <<"a">>),
       Row(<<"4">>, <<"a", "l">>, <<"b">>) >>

Fields == {T_id, T_name, replace(T_o_n)}

(***************************************************************************)
(* QuerySet: the query specification and the database's evaluation of it.  *)
(***************************************************************************)
\* model.objects.all()
All(objects) ==
    [objects |-> objects, filters |-> <<>>, order_by |-> <<>>,
     sliced |-> FALSE, low |-> 0, high |-> 0]

\* Q(): no children, restricts nothing.
Q == [connector |-> "AND", children |-> <<>>]

\* Q(**{'<field>__<lookup>': value})
Lookup(field, lookup, value) == [field |-> field, lookup |-> lookup, value |-> value]

\* q |= Q(child)
Or(q, child) == [connector |-> "OR", children |-> Append(q.children, child)]

ChildMatches(row, c) == istartswith(row[c.field], c.value)

QMatches(row, q) ==
    \/ q.children = <<>>
    \/ /\ q.connector = "AND"
       /\ \A i \in 1..Len(q.children) : ChildMatches(row, q.children[i])
    \/ /\ q.connector = "OR"
       /\ \E i \in 1..Len(q.children) : ChildMatches(row, q.children[i])

\* qs.filter(q): the filters of a query set are ANDed.
Filter(q_set, q) == [q_set EXCEPT !.filters = Append(@, q)]

\* qs.order_by(*keys)
OrderBy(q_set, keys) == [q_set EXCEPT !.order_by = keys]

\* qs[start:stop]
Slice(q_set, start, stop) == [q_set EXCEPT !.sliced = TRUE, !.low = start, !.high = stop]

Alphabet ==
    <<"0", "1", "2", "3", "4", "5", "6", "7", "8", "9", "A", "B", "Z",
      "a", "b", "e", "l", "m", "o", "y", "z">>

Ord(c) == CHOOSE i \in 1..Len(Alphabet) : Alphabet[i] = c

\* -1, 0, 1 as text a sorts before, with, after text b.
RECURSIVE TextCmp(_, _)
TextCmp(a, b) ==
    IF a = <<>> /\ b = <<>> THEN 0
    ELSE IF a = <<>> THEN 0 - 1
    ELSE IF b = <<>> THEN 1
    ELSE IF Ord(a[1]) < Ord(b[1]) THEN 0 - 1
    ELSE IF Ord(a[1]) > Ord(b[1]) THEN 1
    ELSE TextCmp(Tail(a), Tail(b))

KeyDesc(key) == key # <<>> /\ key[1] = "-"

KeyField(key) == IF KeyDesc(key) THEN Tail(key) ELSE key

RECURSIVE RowCmp(_, _, _)
RowCmp(r1, r2, keys) ==
    IF keys = <<>> THEN 0
    ELSE LET c == TextCmp(r1[KeyField(keys[1])], r2[KeyField(keys[1])])
             d == IF KeyDesc(keys[1]) THEN 0 - c ELSE c
         IN IF d # 0 THEN d ELSE RowCmp(r1, r2, Tail(keys))

\* Stable insertion of row r into the sorted sequence s.
RECURSIVE Insert(_, _, _)
Insert(s, r, keys) ==
    IF s = <<>> THEN <<r>>
    ELSE IF RowCmp(r, s[1], keys) < 0 THEN <<r>> \o s
    ELSE <<s[1]>> \o Insert(Tail(s), r, keys)

RECURSIVE Sort(_, _)
Sort(s, keys) ==
    IF s = <<>> THEN <<>>
    ELSE Insert(Sort(SubSeq(s, 1, Len(s) - 1), keys), s[Len(s)], keys)

\* The rows the database returns for a query set.
Rows(q_set) ==
    LET Keep(row) == \A i \in 1..Len(q_set.filters) : QMatches(row, q_set.filters[i])
        filtered == SelectSeq(q_set.objects, Keep)
        ordered == Sort(filtered, q_set.order_by)
    IN IF q_set.sliced
       THEN SubSeq(ordered, q_set.low + 1, min(q_set.high, Len(ordered)))
       ELSE ordered

\* qs.count()
Count(q_set) == Len(Rows(q_set))

(***************************************************************************)
(* DatatableMixin: the methods get_context_data calls, as functions of the *)
(* instance's state.  A method that can raise yields a record whose err    *)
(* names the exception ("" when it returns).                               *)
(***************************************************************************)
FILTER_ISTARTSWITH == "istartswith"

get_filter_method == FILTER_ISTARTSWITH

none_string == <<>>

\* Python truth of a text or None.
Truthy(v) == v # None /\ v # <<>>

\* seq[k] with Python's index rule: -len <= k < len, negative from the end.
IndexOk(seq, k) == 0 - Len(seq) <= k /\ k < Len(seq)

Item(seq, k) == IF k >= 0 THEN seq[k + 1] ELSE seq[Len(seq) + k + 1]

\* initialize(): the legacy marker key decides the dialect.
initialize == "iSortingCols" \in DOMAIN querydict

ColumnDef(counter) ==
    [name |-> Get(Fmt("columns[", counter, "][name]"), None),
     data |-> Get(Fmt("columns[", counter, "][data]"), None),
     searchable |-> Get(Fmt("columns[", counter, "][searchable]"), None) = <<"t", "r", "u", "e">>,
     orderable |-> Get(Fmt("columns[", counter, "][orderable]"), None) = <<"t", "r", "u", "e">>,
     search_value |-> Get(Fmt("columns[", counter, "][search][value]"), None),
     search_regex |-> Get(Fmt("columns[", counter, "][search][regex]"), None)]

RECURSIVE ExtractFrom(_)
ExtractFrom(counter) ==
    IF Fmt("columns[", counter, "][name]") \in DOMAIN querydict
    THEN <<ColumnDef(counter)>> \o ExtractFrom(counter + 1)
    ELSE <<>>

extract_datatables_column_data ==
    IF ~pre_camel_case_notation THEN ExtractFrom(0) ELSE <<>>

\* A bug: a metadata entry without a name is skipped instead of refused.
get_columns_skipping_nameless ==
    IF columns # <<>> \/ pre_camel_case_notation
    THEN [err |-> "", val |-> columns]
    ELSE LET Named(col) == Truthy(col.name)
             named == SelectSeq(columns_data, Named)
         IN [err |-> "", val |-> [i \in 1..Len(named) |-> named[i].name]]

get_columns ==
    IF columns # <<>> \/ pre_camel_case_notation
    THEN [err |-> "", val |-> columns]
    ELSE IF \E i \in 1..Len(columns_data) : ~Truthy(columns_data[i].name)
    THEN [err |-> "Exception", val |-> <<>>]
    ELSE [err |-> "", val |-> [i \in 1..Len(columns_data) |-> columns_data[i].name]]

\* get_order_columns(): its value, which it also binds to self.order_columns
\* when it derives the list from the request.
get_order_columns ==
    IF order_columns # <<>> \/ pre_camel_case_notation
    THEN order_columns
    ELSE IF \E i \in 1..Len(columns_data) : ~Truthy(columns_data[i].name)
    THEN [i \in 1..Len(_columns) |-> Str(_columns[i])]
    ELSE [i \in 1..Len(columns_data) |->
             IF columns_data[i].orderable THEN Str(columns_data[i].name) ELSE Str(<<>>)]

get_initial_queryset ==
    IF ~model.defined
    THEN [err |-> "NotImplementedError", val |-> All(<<>>)]
    ELSE [err |-> "", val |-> All(model.objects)]

\* A bug: the global search text is applied to every column, searchable or not.
GlobalAppliesToAll(search, col) == Truthy(search)

\* if search and col['searchable']
GlobalApplies(search, col) == Truthy(search) /\ col.searchable

\* One pass of filter_queryset's loop and the passes after it.
RECURSIVE FilterLoop(_, _, _, _)
FilterLoop(col_no, search, q, q_set) ==
    IF col_no >= Len(columns_data) THEN [err |-> "", q |-> q, val |-> q_set]
    ELSE LET col == columns_data[col_no + 1]
             global == GlobalApplies(search, col)
             own == Truthy(col.search_value)
         IN IF (global \/ own) /\ ~IndexOk(_columns, col_no)
            THEN [err |-> "IndexError", q |-> q, val |-> q_set]
            ELSE IF own /\ replace(Item(_columns, col_no)) \notin Fields
            THEN [err |-> "FieldError", q |-> q, val |-> q_set]
            ELSE FilterLoop(
                    col_no + 1, search,
                    IF global
                    THEN Or(q, Lookup(replace(Item(_columns, col_no)), get_filter_method, search))
                    ELSE q,
                    IF own
                    THEN Filter(q_set,
                                [connector |-> "AND",
                                 children |-> <<Lookup(replace(Item(_columns, col_no)),
                                                       get_filter_method, col.search_value)>>])
                    ELSE q_set)

filter_queryset(q_set) ==
    IF ~pre_camel_case_notation
    THEN LET r == FilterLoop(0, Get("search[value]", None), Q, q_set)
         IN IF r.err # "" THEN [err |-> r.err, val |-> q_set]
            ELSE IF \E i \in 1..Len(r.q.children) : r.q.children[i].field \notin Fields
            THEN [err |-> "FieldError", val |-> q_set]
            ELSE [err |-> "", val |-> Filter(r.val, r.q)]
    ELSE [err |-> "", val |-> q_set]

\* ordering(): the number of sort entries.
RECURSIVE CountOrderKeys(_)
CountOrderKeys(n) ==
    IF Fmt("order[", n, "][column]") \in DOMAIN querydict THEN CountOrderKeys(n + 1) ELSE n

sorting_cols ==
    IF pre_camel_case_notation
    THEN LET r == int(Get("iSortingCols", <<"0">>))
         IN IF r.err = "ValueError" THEN 0 ELSE r.val
    ELSE CountOrderKeys(0)

SortColKey(i) ==
    IF pre_camel_case_notation THEN Fmt("iSortCol_", i, "") ELSE Fmt("order[", i, "][column]")

SortDirKey(i) ==
    IF pre_camel_case_notation THEN Fmt("sSortDir_", i, "") ELSE Fmt("order[", i, "][dir]")

\* The try block of ordering()'s loop for entry i: sort_dir starts as 'asc'
\* and is read from the request only after int() of the selector returned.
SortEntry(i) ==
    LET r == int(Get(SortColKey(i), None))
    IN IF r.err = "TypeError"
       THEN [err |-> "TypeError", sort_col |-> 0, sort_dir |-> <<"a", "s", "c">>]
       ELSE IF r.err = "ValueError"
       THEN [err |-> "", sort_col |-> 0, sort_dir |-> <<"a", "s", "c">>]
       ELSE [err |-> "", sort_col |-> r.val, sort_dir |-> Get(SortDirKey(i), None)]

Sdir(sort_dir) == IF sort_dir = <<"d", "e", "s", "c">> THEN <<"-">> ELSE <<>>

\* order_columns[sort_col]
SortCol(cols, sort_col) ==
    IF IndexOk(cols, sort_col)
    THEN [err |-> "", val |-> Item(cols, sort_col)]
    ELSE [err |-> "IndexError", val |-> Str(<<>>)]

\* The keys one sort entry appends to order.
SortKeys(sortcol, sdir) ==
    IF sortcol.is_list
    THEN [j \in 1..Len(sortcol.keys) |-> sdir \o replace(sortcol.keys[j])]
    ELSE <<sdir \o replace(sortcol.keys[1])>>

RECURSIVE OrderingLoop(_, _, _, _)
OrderingLoop(i, n, cols, acc) ==
    IF i >= n THEN [err |-> "", order |-> acc]
    ELSE LET e == SortEntry(i)
             c == SortCol(cols, e.sort_col)
         IN IF e.err # "" THEN [err |-> e.err, order |-> acc]
            ELSE IF c.err # "" THEN [err |-> c.err, order |-> acc]
            ELSE OrderingLoop(i + 1, n, cols, acc \o SortKeys(c.val, Sdir(e.sort_dir)))

\* ordering(qs): order is the local list as the method leaves it.
ordering(q_set) ==
    LET r == OrderingLoop(0, sorting_cols, get_order_columns, <<>>)
    IN IF r.err # "" THEN [err |-> r.err, order |-> r.order, val |-> q_set]
       ELSE IF r.order = <<>> THEN [err |-> "", order |-> r.order, val |-> q_set]
       ELSE IF \E j \in 1..Len(r.order) : KeyField(r.order[j]) \notin Fields
       THEN [err |-> "FieldError", order |-> r.order, val |-> q_set]
       ELSE [err |-> "", order |-> r.order, val |-> OrderBy(q_set, r.order)]

LengthKey == IF pre_camel_case_notation THEN "iDisplayLength" ELSE "length"

StartKey == IF pre_camel_case_notation THEN "iDisplayStart" ELSE "start"

\* A bug: the requested length is used as it is.
LimitUncapped(length) == length

\* The limit paging() computes.
Limit(length) == min(length, max_display_length)

\* A bug: with paging disabled the rows before start are still skipped.
UnpagedFromStart(q_set, start) == Slice(q_set, start, start + Count(q_set))

\* if limit == -1: return qs
Unpaged(q_set, start) == q_set

\* paging(qs): a negative slice bound is refused by the query set.
paging(q_set) ==
    LET l == int(Get(LengthKey, <<"1", "0">>))
        s == int(Get(StartKey, <<"0">>))
    IN IF l.err # "" THEN [err |-> l.err, val |-> q_set]
       ELSE IF s.err # "" THEN [err |-> s.err, val |-> q_set]
       ELSE IF Limit(l.val) = 0 - 1 THEN [err |-> "", val |-> Unpaged(q_set, s.val)]
       ELSE IF s.val < 0 \/ s.val + Limit(l.val) < 0
       THEN [err |-> "AssertionError", val |-> q_set]
       ELSE [err |-> "", val |-> Slice(q_set, s.val, s.val + Limit(l.val))]

\* django.utils.html.escape
EscapeChar(c) ==
    CASE c = "&" -> <<"&", "a", "m", "p", ";">>
      [] c = "<" -> <<"&", "l", "t", ";">>
      [] c = ">" -> <<"&", "g", "t", ";">>
      [] c = "\"" -> <<"&", "q", "u", "o", "t", ";">>
      [] c = "'" -> <<"&", "#", "x", "2", "7", ";">>
      [] OTHER -> <<c>>

RECURSIVE escape(_)
escape(s) == IF s = <<>> THEN <<>> ELSE EscapeChar(s[1]) \o escape(Tail(s))

\* render_column(row, column): a missing last attribute reads as None, a
\* missing relation on the path raises.
render_column(row, column) ==
    IF replace(column) \in DOMAIN row
    THEN [err |-> "", val |-> escape(row[replace(column)])]
    ELSE IF \E i \in 1..Len(column) : column[i] = "."
    THEN [err |-> "AttributeError", val |-> <<>>]
    ELSE [err |-> "", val |-> escape(none_string)]

prepare_results(q_set) ==
    LET rows == Rows(q_set)
    IN IF \E i \in 1..Len(rows), j \in 1..Len(_columns) : render_column(rows[i], _columns[j]).err # ""
       THEN [err |-> "AttributeError", val |-> <<>>]
       ELSE [err |-> "",
             val |-> [i \in 1..Len(rows) |->
                        [j \in 1..Len(_columns) |-> render_column(rows[i], _columns[j]).val]]]

EchoKey == IF pre_camel_case_notation THEN "sEcho" ELSE "draw"

\* The document get_context_data builds, in the dialect's shape.
Document(echo, data) ==
    IF pre_camel_case_notation
    THEN [sEcho |-> echo, iTotalRecords |-> total_records,
          iTotalDisplayRecords |-> total_display_records, aaData |-> data]
    ELSE [draw |-> echo, recordsTotal |-> total_records,
          recordsFiltered |-> total_display_records, data |-> data]

(***************************************************************************)
(* get_context_data, one action per statement of its try block, and the    *)
(* except clause.                                                          *)
(***************************************************************************)
\* A bug: the filtered count is taken after ordering and paging.
StepsCountingThePage ==
    <<"initialize", "extract_datatables_column_data", "get_columns",
      "get_initial_queryset", "count_total", "filter_queryset",
      "ordering", "paging", "count_filtered", "prepare_results">>

Steps ==
    <<"initialize", "extract_datatables_column_data", "get_columns",
      "get_initial_queryset", "count_total", "filter_queryset", "count_filtered",
      "ordering", "paging", "prepare_results">>

After(step) ==
    LET i == CHOOSE k \in 1..Len(Steps) : Steps[k] = step
    IN IF i = Len(Steps) THEN "done" ELSE Steps[i + 1]

Initialize ==
    /\ pc = "initialize"
    /\ pre_camel_case_notation' = (initialize \/ pre_camel_case_notation)
    /\ pc' = After(pc)
    /\ UNCHANGED <<querydict, model, columns, order_columns, max_display_length,
                   columns_data, _columns, qs, total_records, total_display_records,
                   order, exc, logged, ret>>

ExtractColumnsData ==
    /\ pc = "extract_datatables_column_data"
    /\ columns_data' = extract_datatables_column_data
    /\ pc' = After(pc)
    /\ UNCHANGED <<querydict, model, columns, order_columns, max_display_length,
                   pre_camel_case_notation, _columns, qs, total_records,
                   total_display_records, order, exc, logged, ret>>

GetColumns ==
    /\ pc = "get_columns"
    /\ IF get_columns.err # ""
       THEN /\ exc' = get_columns.err
            /\ pc' = "except"
            /\ UNCHANGED _columns
       ELSE /\ _columns' = get_columns.val
            /\ pc' = After(pc)
            /\ UNCHANGED exc
    /\ UNCHANGED <<querydict, model, columns, order_columns, max_display_length,
                   pre_camel_case_notation, columns_data, qs, total_records,
                   total_display_records, order, logged, ret>>

GetInitialQueryset ==
    /\ pc = "get_initial_queryset"
    /\ IF get_initial_queryset.err # ""
       THEN /\ exc' = get_initial_queryset.err
            /\ pc' = "except"
            /\ UNCHANGED qs
       ELSE /\ qs' = get_initial_queryset.val
            /\ pc' = After(pc)
            /\ UNCHANGED exc
    /\ UNCHANGED <<querydict, model, columns, order_columns, max_display_length,
                   pre_camel_case_notation, columns_data, _columns, total_records,
                   total_display_records, order, logged, ret>>

CountTotal ==
    /\ pc = "count_total"
    /\ total_records' = Count(qs)
    /\ pc' = After(pc)
    /\ UNCHANGED <<querydict, model, columns, order_columns, max_display_length,
                   pre_camel_case_notation, columns_data, _columns, qs,
                   total_display_records, order, exc, logged, ret>>

FilterQueryset ==
    /\ pc = "filter_queryset"
    /\ IF filter_queryset(qs).err # ""
       THEN /\ exc' = filter_queryset(qs).err
            /\ pc' = "except"
            /\ UNCHANGED qs
       ELSE /\ qs' = filter_queryset(qs).val
            /\ pc' = After(pc)
            /\ UNCHANGED exc
    /\ UNCHANGED <<querydict, model, columns, order_columns, max_display_length,
                   pre_camel_case_notation, columns_data, _columns, total_records,
                   total_display_records, order, logged, ret>>

CountFiltered ==
    /\ pc = "count_filtered"
    /\ total_display_records' = Count(qs)
    /\ pc' = After(pc)
    /\ UNCHANGED <<querydict, model, columns, order_columns, max_display_length,
                   pre_camel_case_notation, columns_data, _columns, qs, total_records,
                   order, exc, logged, ret>>

Ordering ==
    /\ pc = "ordering"
    /\ order_columns' = get_order_columns
    /\ order' = ordering(qs).order
    /\ IF ordering(qs).err # ""
       THEN /\ exc' = ordering(qs).err
            /\ pc' = "except"
            /\ UNCHANGED qs
       ELSE /\ qs' = ordering(qs).val
            /\ pc' = After(pc)
            /\ UNCHANGED exc
    /\ UNCHANGED <<querydict, model, columns, max_display_length,
                   pre_camel_case_notation, columns_data, _columns, total_records,
                   total_display_records, logged, ret>>

Paging ==
    /\ pc = "paging"
    /\ IF paging(qs).err # ""
       THEN /\ exc' = paging(qs).err
            /\ pc' = "except"
            /\ UNCHANGED qs
       ELSE /\ qs' = paging(qs).val
            /\ pc' = After(pc)
            /\ UNCHANGED exc
    /\ UNCHANGED <<querydict, model, columns, order_columns, max_display_length,
                   pre_camel_case_notation, columns_data, _columns, total_records,
                   total_display_records, order, logged, ret>>

\* prepare_results, then the document; int() of the echo token can raise.
PrepareResults ==
    /\ pc = "prepare_results"
    /\ LET data == prepare_results(qs)
           echo == int(Get(EchoKey, <<"0">>))
       IN IF data.err # "" \/ echo.err # ""
          THEN /\ exc' = (IF data.err # "" THEN data.err ELSE echo.err)
               /\ pc' = "except"
               /\ UNCHANGED ret
          ELSE /\ ret' = <<Document(echo.val, data.val)>>
               /\ pc' = After(pc)
               /\ UNCHANGED exc
    /\ UNCHANGED <<querydict, model, columns, order_columns, max_display_length,
                   pre_camel_case_notation, columns_data, _columns, qs, total_records,
                   total_display_records, order, logged>>

\* A bug: the hook swallows the exception and returns an error document.
handle_exception_returning_document(e) ==
    [logged |-> e, raises |-> "",
     returns |-> <<IF pre_camel_case_notation
                   THEN [sEcho |-> 0, sError |-> e, aaData |-> <<>>,
                         iTotalRecords |-> 0, iTotalDisplayRecords |-> 0]
                   ELSE [draw |-> 0, error |-> e, data |-> <<>>,
                         recordsTotal |-> 0, recordsFiltered |-> 0]>>]

\* handle_exception(e): logger.exception(str(e)); raise e.
handle_exception(e) == [logged |-> e, raises |-> e, returns |-> <<>>]

\* except Exception as e: return self.handle_exception(e).  The hook
\* re-raises, so the exception leaves get_context_data and nothing is returned.
HandleException ==
    /\ pc = "except"
    /\ logged' = handle_exception(exc).logged
    /\ IF handle_exception(exc).raises # ""
       THEN /\ exc' = handle_exception(exc).raises
            /\ pc' = "raised"
            /\ UNCHANGED ret
       ELSE /\ ret' = handle_exception(exc).returns
            /\ exc' = ""
            /\ pc' = "done"
    /\ UNCHANGED <<querydict, model, columns, order_columns, max_display_length,
                   pre_camel_case_notation, columns_data, _columns, qs, total_records,
                   total_display_records, order>>

Next ==
    \/ Initialize
    \/ ExtractColumnsData
    \/ GetColumns
    \/ GetInitialQueryset
    \/ CountTotal
    \/ FilterQueryset
    \/ CountFiltered
    \/ Ordering
    \/ Paging
    \/ PrepareResults
    \/ HandleException

(***************************************************************************)
(* Requests and configurations checked.  Absent marks a key the request    *)
(* does not send; it never enters the parameter map.                       *)
(***************************************************************************)
Absent == <<"absent">>

T_true == <<"t", "r", "u", "e">>

T_false == <<"f", "a", "l", "s", "e">>

T_desc == <<"d", "e", "s", "c">>

T_asc == <<"a", "s", "c">>

Opt(key, v) == IF v = Absent THEN {} ELSE {<<key, v>>}

Params(pairs) == [k \in {p[1] : p \in pairs} |-> (CHOOSE p \in pairs : p[1] = k)[2]]

SortParams(legacy, sorts) ==
    UNION {Opt(IF legacy THEN Fmt("iSortCol_", i - 1, "") ELSE Fmt("order[", i - 1, "][column]"),
               sorts[i].col)
           \cup Opt(IF legacy THEN Fmt("sSortDir_", i - 1, "") ELSE Fmt("order[", i - 1, "][dir]"),
                    sorts[i].dir) : i \in 1..Len(sorts)}

ColumnParams(meta) ==
    UNION {{<<Fmt("columns[", i - 1, "][name]"), meta[i].name>>,
            <<Fmt("columns[", i - 1, "][data]"), <<Digits[i]>> >>,
            <<Fmt("columns[", i - 1, "][searchable]"), meta[i].searchable>>,
            <<Fmt("columns[", i - 1, "][orderable]"), meta[i].orderable>>,
            <<Fmt("columns[", i - 1, "][search][value]"), meta[i].value>>,
            <<Fmt("columns[", i - 1, "][search][regex]"), T_false>>} : i \in 1..Len(meta)}

\* A legacy request (DataTables < 1.10): count is the iSortingCols text.
LegacyRequest(count, sorts, start, length, echo) ==
    Params({<<"iSortingCols", count>>} \cup SortParams(TRUE, sorts)
           \cup Opt("iDisplayStart", start) \cup Opt("iDisplayLength", length)
           \cup Opt("sEcho", echo))

\* A current request (DataTables 1.10+).
CurrentRequest(sorts, meta, search, start, length, echo) ==
    Params(SortParams(FALSE, sorts) \cup ColumnParams(meta)
           \cup Opt("search[value]", search)
           \cup Opt("start", start) \cup Opt("length", length) \cup Opt("draw", echo))

SeqsUpTo(S, n) == UNION {[1..k -> S] : k \in 0..n}

\* A view class's configuration.  max_display_length is 100 unless the class
\* sets it; the checked classes set it below the number of objects, so that
\* the cap acts.
Config(cols, order_cols, max_len, defined) ==
    [columns |-> cols, order_columns |-> order_cols, max_display_length |-> max_len,
     model |-> [defined |-> defined, objects |-> IF defined THEN Objects ELSE <<>>]]

\* The state of a fresh view instance that is about to serve a request.
InitWith(requests, configs) ==
    /\ querydict \in requests
    /\ \E c \in configs :
          /\ model = c.model
          /\ columns = c.columns
          /\ order_columns = c.order_columns
          /\ max_display_length = c.max_display_length
    /\ pre_camel_case_notation = FALSE
    /\ columns_data = <<>>
    /\ _columns = <<>>
    /\ qs = All(<<>>)
    /\ total_records = 0
    /\ total_display_records = 0
    /\ order = <<>>
    /\ exc = ""
    /\ logged = ""
    /\ ret = <<>>
    /\ pc = "initialize"

StaticColumns == <<T_id, T_name>>

StaticOrderColumns == <<Str(T_id), List(<<T_name, T_id>>), Str(T_o_n)>>

\* Text of a small non-negative number.
Text(n) == <<Digits[n + 1]>>

(***************************************************************************)
(* SpecOrder: sort entries of both dialects over a static configuration.   *)
(***************************************************************************)
SortEntries ==
    [col : {<<"0">>, <<"1">>, <<"-", "1">>, <<"-", "4">>, <<"3">>, <<"x">>, Absent},
     dir : {T_desc, T_asc, Absent}]

OrderRequests ==
    {CurrentRequest(sorts, <<>>, Absent, <<"0">>, <<"2">>, <<"5">>) :
        sorts \in SeqsUpTo(SortEntries, MaxSortEntries)}
    \cup {LegacyRequest(count, sorts, <<"0">>, <<"2">>, <<"5">>) :
            count \in {Text(k) : k \in 0..MaxSortEntries} \cup {<<"x">>},
            sorts \in SeqsUpTo(SortEntries, MaxSortEntries)}

OrderConfigs == {Config(StaticColumns, StaticOrderColumns, 3, TRUE)}

InitOrder == InitWith(OrderRequests, OrderConfigs)

SpecOrder == InitOrder /\ [][Next]_vars

(***************************************************************************)
(* The request's sort entries as the request states them, read from the    *)
(* parameter map and not from ordering()'s locals.                         *)
(***************************************************************************)
OrderingReturned == pc \in {"paging", "prepare_results", "done"}

RequestedDir(i) == Get(SortDirKey(i), None)

\* The column index an entry selects: 0 for malformed numeric text.
RequestedCol(i) ==
    LET r == int(Get(SortColKey(i), None))
    IN IF r.err = "" THEN r.val ELSE 0

\* The keys of the order column an entry selects, without a direction.
EntryNames(i) ==
    LET c == Item(order_columns, RequestedCol(i))
    IN [j \in 1..Len(c.keys) |-> replace(c.keys[j])]

\* The keys an entry is to contribute: its order column's keys, all with the
\* direction the entry asks for.
EntryKeys(i) ==
    [j \in 1..Len(EntryNames(i)) |->
        (IF RequestedDir(i) = T_desc THEN <<"-">> ELSE <<>>) \o EntryNames(i)[j]]

RECURSIVE ConcatEntries(_, _)
ConcatEntries(i, n) == IF i >= n THEN <<>> ELSE EntryKeys(i) \o ConcatEntries(i + 1, n)

RECURSIVE ConcatNames(_, _)
ConcatNames(i, n) == IF i >= n THEN <<>> ELSE EntryNames(i) \o ConcatNames(i + 1, n)

\* Where entry i's keys start in order (0-based), once ordering() returned.
RECURSIVE EntryOffset(_)
EntryOffset(i) == IF i = 0 THEN 0 ELSE EntryOffset(i - 1) + Len(EntryNames(i - 1))

\* C2: for every sort entry, in either dialect, the keys ordering() emits for
\* the entry are descending when the entry's direction text is "desc" and
\* ascending otherwise, also for an entry whose malformed selector was reset
\* to column 0.
C2_EntryDirection ==
    OrderingReturned =>
        \A i \in 0..(sorting_cols - 1) :
            \A j \in 1..Len(EntryNames(i)) :
                KeyDesc(order[EntryOffset(i) + j]) <=> (RequestedDir(i) = T_desc)

\* C5: a sort entry whose column index is below 0 or at or above the number
\* of order columns ends the request in a fatal error: ordering() does not
\* return with keys for it.
C5_OutOfRangeIsFatal ==
    (\E i \in 0..(sorting_cols - 1) :
        /\ int(Get(SortColKey(i), None)).err = ""
        /\ \/ RequestedCol(i) < 0
           \/ RequestedCol(i) >= Len(order_columns))
    => ~OrderingReturned

\* C7: the key list ordering() hands to order_by is the concatenation, in
\* entry order, of the keys of the order column each entry selects, every key
\* of an entry carrying that entry's direction.
C7_KeysConcatenated ==
    OrderingReturned => order = ConcatEntries(0, sorting_cols)

\* The part of C7 about which keys are emitted and where, leaving the
\* direction aside: the keys' names are the concatenation in entry order.
KeyNamesConcatenated ==
    OrderingReturned =>
        [j \in 1..Len(order) |-> KeyField(order[j])] = ConcatNames(0, sorting_cols)

\* C8: decoding is lenient: a request whose sort-column selectors, where
\* present, select an order column never faults; a selector that is missing
\* is no fault.
C8_MissingKeyIsNoFault ==
    (\A i \in 0..(sorting_cols - 1) :
        SortColKey(i) \in DOMAIN querydict => IndexOk(order_columns, RequestedCol(i)))
    => exc = ""

(***************************************************************************)
(* SpecPage: start and length texts of both dialects, with page limits     *)
(* below the number of objects.                                            *)
(***************************************************************************)
TwoColumns ==
    <<[name |-> T_id, searchable |-> T_true, orderable |-> T_true, value |-> <<>>],
      [name |-> T_name, searchable |-> T_true, orderable |-> T_true, value |-> <<>>]>>

StartTexts == {Absent, <<"0">>, <<"1">>, <<"2">>, <<"5">>, <<"-", "1">>, <<"x">>}

LengthTexts ==
    {Absent, <<"-", "1">>, <<"-", "2">>, <<"x">>} \cup {Text(k) : k \in 0..(MaxDisplayLength + 2)}

PageSorts == {<<>>, <<[col |-> <<"1">>, dir |-> T_desc]>>}

PageRequests ==
    {CurrentRequest(sorts, TwoColumns, search, start, length, <<"5">>) :
        sorts \in PageSorts, search \in {Absent, <<"a">>},
        start \in StartTexts, length \in LengthTexts}
    \cup {LegacyRequest(Text(Len(sorts)), sorts, start, length, <<"5">>) :
            sorts \in PageSorts, start \in StartTexts, length \in LengthTexts}

PageConfigs ==
    {Config(StaticColumns, StaticOrderColumns, m, TRUE) : m \in 1..MaxDisplayLength}

InitPage == InitWith(PageRequests, PageConfigs)

SpecPage == InitPage /\ [][Next]_vars

PagingReturned == pc \in {"prepare_results", "done"}

\* The request's length and start as paging() reads them.
RequestedLength == int(Get(LengthKey, <<"1", "0">>)).val

RequestedStart == int(Get(StartKey, <<"0">>)).val

\* The filtered and ordered sequence paging() is given.
Sequenced == Rows([qs EXCEPT !.sliced = FALSE])

\* Rows [start, start + limit) of a sequence, clamped to the rows it has.
Window(rows, start, limit) ==
    LET avail == Len(rows) - start
        k == IF limit <= 0 \/ avail <= 0 THEN 0 ELSE min(limit, avail)
    IN [i \in 1..k |-> rows[start + i]]

\* C3: when the requested length is not -1, the page is the rows
\* [start, start + min(length, max_display_length)) of the filtered and
\* ordered sequence, clamped to the rows available: never more than
\* max_display_length rows, and exactly that many when the request asks for
\* more and that many are available from start.
C3_PageIsCappedWindow ==
    (PagingReturned /\ RequestedLength # 0 - 1) =>
        /\ Rows(qs) = Window(Sequenced, RequestedStart,
                             min(RequestedLength, max_display_length))
        /\ Len(Rows(qs)) <= max_display_length
        /\ (RequestedLength > max_display_length
            /\ Len(Sequenced) >= RequestedStart + max_display_length)
           => Len(Rows(qs)) = max_display_length

\* C3's case: a request for more rows than the limit, from a start above 0,
\* got exactly max_display_length rows.
C3_Witness ==
    /\ PagingReturned
    /\ RequestedLength > max_display_length
    /\ RequestedStart > 0
    /\ Len(Sequenced) > max_display_length
    /\ Len(Rows(qs)) = max_display_length

\* C4 as stated: with length = -1 the page is all rows of the filtered and
\* ordered sequence from offset start onward.
C4_AllRowsFromStart ==
    (PagingReturned /\ RequestedLength = 0 - 1) =>
        Rows(qs) = Window(Sequenced, RequestedStart, Len(Sequenced))

\* C4 as amended: with length = -1 paging() returns the query set unsliced:
\* all rows of the filtered and ordered sequence from its first row, whatever
\* start is, with no cap from max_display_length.
C4_AllRowsIgnoringStart ==
    (PagingReturned /\ RequestedLength = 0 - 1) =>
        /\ Rows(qs) = Window(Sequenced, 0, Len(Sequenced))
        /\ Len(Rows(qs)) = total_display_records

\* C4's case: length = -1 with a start above 0 returned more rows than
\* max_display_length, the first row of the sequence among them.
C4_Witness ==
    /\ PagingReturned
    /\ RequestedLength = 0 - 1
    /\ RequestedStart > 0
    /\ Len(Rows(qs)) > max_display_length
    /\ Rows(qs)[1] = Sequenced[1]

(***************************************************************************)
(* SpecFilter: current-dialect requests over column metadata, global and   *)
(* per-column search texts, with static or request-derived columns.        *)
(***************************************************************************)
ColumnDefs ==
    [name : {<<>>, T_id, T_name}, searchable : {T_true, T_false},
     orderable : {T_true}, value : {<<>>, <<"2">>, <<"a">>}]

SearchTexts == {Absent, <<>>, <<"a">>}

FilterRequests ==
    {CurrentRequest(<<>>, meta, search, <<"0">>, <<"5">>, <<"5">>) :
        meta \in SeqsUpTo(ColumnDefs, MaxColumnsData), search \in SearchTexts}

FilterConfigs ==
    {Config(cols, <<>>, 3, TRUE) : cols \in {<<>>, <<T_name>>, StaticColumns}}

InitFilter == InitWith(FilterRequests, FilterConfigs)

SpecFilter == InitFilter /\ [][Next]_vars

\* The column metadata as the request states it.
RECURSIVE CountColumnKeys(_)
CountColumnKeys(n) ==
    IF Fmt("columns[", n, "][name]") \in DOMAIN querydict THEN CountColumnKeys(n + 1) ELSE n

RequestedColumns == CountColumnKeys(0)

RequestedSearchable(i) == Get(Fmt("columns[", i, "][searchable]"), None) = T_true

RequestedValue(i) == Get(Fmt("columns[", i, "][search][value]"), None)

RequestedSearch == Get("search[value]", None)

FilterReturned ==
    pc \in {"count_filtered", "ordering", "paging", "prepare_results", "done"}

\* The rows that pass the filters of qs, in the objects' order.
Filtered == Rows([qs EXCEPT !.sliced = FALSE, !.order_by = <<>>])

\* 'display column i matches text'
ColumnMatches(row, i, text) == istartswith(row[replace(_columns[i + 1])], text)

\* AND over the columns with a non-empty search value of their own.
OwnPart(row) ==
    \A i \in 0..(RequestedColumns - 1) :
        Truthy(RequestedValue(i)) => ColumnMatches(row, i, RequestedValue(i))

\* OR over the searchable columns, for a non-empty global search text.
GlobalOr(row) ==
    Truthy(RequestedSearch) =>
        \E i \in 0..(RequestedColumns - 1) :
            RequestedSearchable(i) /\ ColumnMatches(row, i, RequestedSearch)

\* The same, restricting nothing when no column is searchable.
GlobalOrIfAny(row) ==
    (\E i \in 0..(RequestedColumns - 1) : RequestedSearchable(i)) => GlobalOr(row)

\* C1 as stated: the filter is (OR over the searchable columns of a match
\* with the global search text) AND (every column with a search value of its
\* own matches it).
C1_FilterIsOrAndOwn ==
    (FilterReturned /\ ~pre_camel_case_notation) =>
        LET Claimed(row) == GlobalOr(row) /\ OwnPart(row)
        IN Filtered = SelectSeq(model.objects, Claimed)

\* C1 as amended: whenever filter_queryset returns, the filter is (OR over
\* the searchable columns of a match with a non-empty global search text,
\* and no restriction when the text is empty or no column is searchable) AND
\* (every column with a non-empty search value of its own matches it,
\* searchable or not).
C1_FilterIsOrIfAnyAndOwn ==
    (FilterReturned /\ ~pre_camel_case_notation) =>
        LET Claimed(row) == GlobalOrIfAny(row) /\ OwnPart(row)
        IN Filtered = SelectSeq(model.objects, Claimed)

\* C1's case: a global text with a searchable column and a column that is
\* not searchable and has a search value of its own, and rows pass.
C1_Witness ==
    /\ FilterReturned
    /\ ~pre_camel_case_notation
    /\ Truthy(RequestedSearch)
    /\ RequestedColumns = 2
    /\ RequestedSearchable(0)
    /\ ~RequestedSearchable(1)
    /\ Truthy(RequestedValue(1))
    /\ _columns = <<T_name, T_id>>
    /\ Len(Filtered) = 1

ColumnsResolved ==
    pc \notin {"initialize", "extract_datatables_column_data", "get_columns"}
    /\ exc # "Exception"

\* C10 as stated: in a current-dialect request the number of metadata
\* entries equals the number of display columns.
C10_MetadataMatchesColumns ==
    (ColumnsResolved /\ ~pre_camel_case_notation) => RequestedColumns = Len(_columns)

\* C10 as amended: in a current-dialect request whose display columns come
\* from the metadata names (no static columns), the display columns are the
\* metadata names, one per entry; with static columns the numbers can
\* differ, and filter_queryset returns only if every metadata index it used
\* is an index into the display columns.
C10_DerivedColumnsMatchMetadata ==
    (ColumnsResolved /\ ~pre_camel_case_notation) =>
        /\ columns = <<>> =>
              /\ RequestedColumns = Len(_columns)
              /\ \A i \in 0..(RequestedColumns - 1) :
                    _columns[i + 1] = Get(Fmt("columns[", i, "][name]"), None)
        /\ FilterReturned =>
              \A i \in 0..(RequestedColumns - 1) :
                  (Truthy(RequestedValue(i)) \/ (Truthy(RequestedSearch) /\ RequestedSearchable(i)))
                  => i < Len(_columns)

\* C10's case: two display columns derived from two metadata names, both
\* used by the filter.
C10_Witness ==
    /\ FilterReturned
    /\ ~pre_camel_case_notation
    /\ columns = <<>>
    /\ RequestedColumns = 2
    /\ Len(_columns) = 2
    /\ Truthy(RequestedSearch)
    /\ RequestedSearchable(1)
    /\ Truthy(RequestedValue(0))

(***************************************************************************)
(* Spec: whole requests of both dialects: sort entries, metadata, search   *)
(* text, start, length and echo token, well-formed, malformed or missing,  *)
(* over configurations with and without static columns and a model.        *)
(***************************************************************************)
SearchedColumns ==
    <<[name |-> T_name, searchable |-> T_true, orderable |-> T_true, value |-> <<>>],
      [name |-> T_id, searchable |-> T_false, orderable |-> T_false, value |-> <<"2">>]>>

NamelessColumn ==
    <<[name |-> <<>>, searchable |-> T_true, orderable |-> T_true, value |-> <<>>]>>

SomeSorts ==
    {<<>>,
     <<[col |-> <<"1">>, dir |-> T_desc]>>,
     <<[col |-> <<"x">>, dir |-> T_desc]>>,
     <<[col |-> <<"0">>, dir |-> Absent]>>,
     <<[col |-> <<"3">>, dir |-> T_asc]>>,
     <<[col |-> <<"0">>, dir |-> T_asc], [col |-> <<"1">>, dir |-> T_desc]>>}

SomeStarts == {Absent, <<"1">>, <<"x">>}

SomeLengths == {Absent, <<"1">>, <<"-", "1">>}

SomeEchoes == {Absent, <<"5">>, <<"x">>}

Requests ==
    {CurrentRequest(sorts, meta, search, start, length, echo) :
        sorts \in SomeSorts,
        meta \in {<<>>, TwoColumns, SearchedColumns, NamelessColumn},
        search \in {Absent, <<"a">>},
        start \in SomeStarts, length \in SomeLengths, echo \in SomeEchoes}
    \cup {LegacyRequest(count, sorts, start, length, echo) :
            count \in {<<"1">>, <<"2">>, <<"x">>}, sorts \in SomeSorts,
            start \in SomeStarts, length \in SomeLengths, echo \in SomeEchoes}

Configs ==
    {Config(cols, order_cols, 2, defined) :
        cols \in {<<>>, StaticColumns},
        order_cols \in {<<>>, StaticOrderColumns},
        defined \in BOOLEAN}

Init == InitWith(Requests, Configs)

Spec == Init /\ [][Next]_vars

Finished == pc \in {"done", "raised"}

\* The counts and rows of a returned document, in either dialect's shape.
DocTotal(d) == IF pre_camel_case_notation THEN d.iTotalRecords ELSE d.recordsTotal

DocFiltered(d) == IF pre_camel_case_notation THEN d.iTotalDisplayRecords ELSE d.recordsFiltered

DocRows(d) == IF pre_camel_case_notation THEN d.aaData ELSE d.data

\* The dialect's error response document: error text, zero counts, no rows.
IsErrorDocument(d) ==
    /\ (IF pre_camel_case_notation THEN "sError" ELSE "error") \in DOMAIN d
    /\ DocTotal(d) = 0
    /\ DocFiltered(d) = 0
    /\ DocRows(d) = <<>>

\* C6 as stated: when a step of get_context_data raises, the request's
\* outcome is the dialect's error response document (error text, zero
\* counts, no rows); the exception does not leave get_context_data.
C6_FaultYieldsErrorDocument ==
    (Finished /\ logged # "") =>
        /\ pc = "done"
        /\ Len(ret) = 1
        /\ IsErrorDocument(ret[1])

\* C6 as amended: when a step of get_context_data raises, handle_exception
\* logs the exception once and re-raises it: the same exception leaves
\* get_context_data and nothing is returned, neither an error document nor
\* partly built data; a document is returned only when no step raised.
C6_FaultIsLoggedAndReraised ==
    /\ (Finished /\ logged # "") => (pc = "raised" /\ exc = logged /\ ret = <<>>)
    /\ (Finished /\ logged = "") => (pc = "done" /\ exc = "" /\ Len(ret) = 1)
    /\ pc = "except" => (exc # "" /\ logged = "" /\ ret = <<>>)

\* C6's case: an out-of-range sort index raised after both counts were
\* taken, and the exception left get_context_data.
C6_Witness ==
    /\ pc = "raised"
    /\ exc = "IndexError"
    /\ total_display_records > 0
    /\ ret = <<>>

\* C9: in a successful request the reported total is the count of the
\* initial collection, whatever the search texts are, the reported filtered
\* count is the count of the rows that pass the filter, whatever start,
\* length and the sort entries are, and the filtered count is at most the
\* total.
C9_CountsBeforeOrderAndPage ==
    pc = "done" =>
        LET Passes(row) ==
                pre_camel_case_notation \/ (GlobalOrIfAny(row) /\ OwnPart(row))
        IN /\ DocTotal(ret[1]) = Len(model.objects)
           /\ DocFiltered(ret[1]) = Len(SelectSeq(model.objects, Passes))
           /\ DocFiltered(ret[1]) <= DocTotal(ret[1])

\* C9's case: a filter that drops rows, a page from a start above 0 that
\* holds fewer rows than pass the filter, and a sort entry.
C9_Witness ==
    /\ pc = "done"
    /\ DocFiltered(ret[1]) < DocTotal(ret[1])
    /\ Len(DocRows(ret[1])) < DocFiltered(ret[1])
    /\ RequestedStart > 0
    /\ order # <<>>

====
